---- MODULE Spec2Model ----
(***************************************************************************)
(* Model of the realtime room / presence / moderation engine of            *)
(* Global-Chat (server.js): the socket.io connection handlers user:join,   *)
(* group:join, group:leave, message:send and disconnect, the in-memory     *)
(* maps onlineUsers and userStrikeState, the bannedPatterns list and the   *)
(* highlightedUsernames map with their reloads from MongoDB, and the admin *)
(* endpoints that change them.                                             *)
(***************************************************************************)
EXTENDS Integers, Sequences, FiniteSets, TLC

(***************************************************************************)
(* Bounds and input sets                                                   *)
(***************************************************************************)
MaxTicks == 2
MaxBanned == 1
MaxNet == 2
MaxLoads == 2
MaxRows == 2
MaxCalls == 3
MaxPending == 2

Sockets == {"c1", "c2"}
UserIds == {"u1", "u2"}
Rooms == {"R1", "R2"}
Undefined == "undefined"

UsernameOf(u) == IF u = "u1" THEN "alice" ELSE IF u = "u2" THEN "bob" ELSE Undefined

(* strings are sequences of one-character strings *)
StrHello == <<"h", "e", "l", "l", "o">>
StrThisIsSpam == <<"t", "h", "i", "s", " ", "i", "s", " ", "S", "p", "a", "m">>
StrSPAM == <<"S", "P", "A", "M">>
StrEmpty == <<>>
StrBlank == <<" ", " ">>
Contents == {StrHello, StrThisIsSpam, StrEmpty, StrBlank}
BanInputs == {StrSPAM, StrBlank}

Second == 1000
MuteMs == 10 * 60 * 1000
T0 == 1000000

(***************************************************************************)
(* JavaScript helpers                                                      *)
(***************************************************************************)
LowerChar(ch) ==
    CASE ch = "S" -> "s" [] ch = "P" -> "p" [] ch = "A" -> "a" [] ch = "M" -> "m"
      [] OTHER -> ch

toLowerCase(s) == [i \in 1..Len(s) |-> LowerChar(s[i])]

includes(text, p) ==
    \E i \in 0..(Len(text) - Len(p)) : SubSeq(text, i + 1, i + Len(p)) = p

IsSpace(ch) == ch = " "

RECURSIVE trimStart(_)
trimStart(s) == IF s # <<>> /\ IsSpace(Head(s)) THEN trimStart(Tail(s)) ELSE s

RECURSIVE trimEnd(_)
trimEnd(s) ==
    IF s # <<>> /\ IsSpace(s[Len(s)]) THEN trimEnd(SubSeq(s, 1, Len(s) - 1)) ELSE s

trim(s) == trimEnd(trimStart(s))

(* a JS Map is a sequence of [key, value] records in insertion order *)
MapHas(m, k) == \E i \in 1..Len(m) : m[i].key = k
MapIndex(m, k) == CHOOSE i \in 1..Len(m) : m[i].key = k
MapGet(m, k) == m[MapIndex(m, k)].value
(* set() that removes an existing key and adds it again at the end *)
MapSetReinsert(m, k, v) ==
    Append(SelectSeq(m, LAMBDA e : e.key # k), [key |-> k, value |-> v])
MapSet(m, k, v) ==
    IF MapHas(m, k)
    THEN [m EXCEPT ![MapIndex(m, k)] = [key |-> k, value |-> v]]
    ELSE Append(m, [key |-> k, value |-> v])
(* a delete that removes the oldest entry when the key is absent *)
MapDeleteOrOldest(m, k) ==
    IF \E i \in 1..Len(m) : m[i].key = k THEN SelectSeq(m, LAMBDA e : e.key # k)
    ELSE IF m = <<>> THEN m ELSE Tail(m)
MapDelete(m, k) == SelectSeq(m, LAMBDA e : e.key # k)
MapKeys(m) == {m[i].key : i \in 1..Len(m)}
MapValues(m) == [i \in 1..Len(m) |-> m[i].value]

RECURSIVE SetToSeq(_)
SetToSeq(S) ==
    IF S = {} THEN <<>>
    ELSE LET x == CHOOSE y \in S : TRUE IN <<x>> \o SetToSeq(S \ {x})

(***************************************************************************)
(* State                                                                   *)
(***************************************************************************)
VARIABLES
    conn,             \* socket -> "new" | "connected" | "disconnected"
    sockUserId,       \* socket.userId
    sockUsername,     \* socket.username
    sockRooms,        \* socket.io room subscriptions of each socket
    onlineUsers,      \* Map groupId -> Map userId -> {username, socketId}
    userStrikeState,  \* Map userId -> {strikes, bannedUntil}
    bannedPatterns,   \* list of lowercase banned substrings
    now,              \* Date.now()
    ticks,            \* number of clock steps taken
    outbox,           \* events emitted by the current handler, in order
    hub,              \* the node process: "running" | "crashed"
    db,               \* let db: "null" | "ready"
    bannedColl,       \* db.collection('banned_usernames'): usernames in insertion order
    highlightedColl,  \* db.collection('highlighted_usernames'): rows in insertion order
    highlightedUsernames, \* Map username -> {password_hash, highlight_color}
    loads,            \* reloads whose find() has been read and whose await has not resumed
    bannedUsernames,  \* inMemoryStore.bannedUsernames
    nextIdBanned,     \* inMemoryStore.nextId.banned
    messages,         \* inMemoryStore.messages / db.collection('messages')
    groupsColl,       \* db.collection('groups'): documents in insertion order
    groups,           \* inMemoryStore.groups: Map _id -> document
    nextIdGroups,     \* inMemoryStore.nextId.groups
    groupReqs,        \* GET /api/groups requests: where each one stands
    mongoUri,         \* mongoClient.js MONGO_URI: "unread" | "unset" | "invalid" | "valid"
    client,           \* mongoClient.js let client: 0 (null) or the number of its attempt
    clientDb,         \* mongoClient.js let db: 0 (null) or the handle client.db() gave
    connectionPromise, \* mongoClient.js let connectionPromise: 0 (null) or an attempt
    attempts,         \* the promises of the async blocks started by connectMongo
    calls,            \* the promise each connectMongo call returned (0: resolved null)
    closing,          \* the client closeMongo awaits the close of, 0 if none
    activeGroup,      \* MobileChatApp state activeGroup (its id), of the client on MobileSocket
    pendingJoins,     \* MobileChatApp joinGroup() calls that have not emitted both events
    joined,           \* observer: (room, userId) pairs whose latest join/leave was a join
    netCount,         \* observer: joins minus matching leaves per userId on CountedRoom
    hist,             \* observer: per user, the responses to its current run of sends
    sent,             \* observer: the message:send being answered, if any
    seen              \* observer: the event handled by the last step, with what it found

pvars == <<conn, sockUserId, sockUsername, sockRooms, onlineUsers,
           userStrikeState, bannedPatterns, now, ticks, outbox>>
dbvars == <<db, bannedColl, highlightedColl, highlightedUsernames, loads>>
memvars == <<bannedUsernames, nextIdBanned, messages>>
grpvars == <<groupsColl, groups, nextIdGroups, groupReqs>>
mongovars == <<mongoUri, client, clientDb, connectionPromise, attempts, calls, closing>>
extvars == <<grpvars, mongovars>>
restvars == <<hub, dbvars, memvars, extvars>>
obsvars == <<joined, netCount, hist, sent, seen>>
clientvars == <<activeGroup, pendingJoins>>
envvars == <<obsvars, clientvars>>
vars == <<pvars, restvars, obsvars, clientvars>>

(* the HTTP requests that may overlap *)
Requests == {"q1", "q2", "q3"}

UserKeys == UserIds \cup {Undefined}

Init ==
    /\ conn = [c \in Sockets |-> "new"]
    /\ sockUserId = [c \in Sockets |-> Undefined]
    /\ sockUsername = [c \in Sockets |-> Undefined]
    /\ sockRooms = [c \in Sockets |-> {}]
    /\ onlineUsers = <<>>
    /\ userStrikeState = [u \in {} |-> 0]
    /\ bannedPatterns = <<>>
    /\ now = T0
    /\ ticks = 0
    /\ outbox = <<>>
    /\ hub = "running"
    /\ db = "null"
    /\ bannedColl = <<>>
    /\ highlightedColl = <<>>
    /\ highlightedUsernames = <<>>
    /\ loads = {}
    /\ bannedUsernames = <<>>
    /\ nextIdBanned = 1
    /\ messages = <<>>
    /\ groupsColl = <<>>
    /\ groups = <<>>
    /\ nextIdGroups = 1
    /\ groupReqs = [r \in Requests |-> [pc |-> "idle"]]
    /\ mongoUri = "unread"
    /\ client = 0
    /\ clientDb = 0
    /\ connectionPromise = 0
    /\ attempts = <<>>
    /\ calls = <<>>
    /\ closing = 0
    /\ activeGroup = Undefined
    /\ pendingJoins = <<>>
    /\ joined = {}
    /\ netCount = [u \in UserIds |-> 0]
    /\ hist = [u \in UserKeys |-> <<>>]
    /\ sent = [socket |-> Undefined]
    /\ seen = [kind |-> Undefined]

(***************************************************************************)
(* socket.io emission                                                      *)
(***************************************************************************)
(* sockets currently subscribed to room g *)
Subscribers(rooms, cn, g) == {c \in Sockets : cn[c] = "connected" /\ g \in rooms[c]}

(* io.emit: every connected socket, whatever its rooms *)
IoToAll(rooms, cn, g) == {c \in Sockets : cn[c] = "connected"}
(* io.to(g): every socket in the room *)
IoTo(rooms, cn, g) == Subscribers(rooms, cn, g)

(* socket.to(g): every socket in the room except the emitting socket *)
SocketToWithSender(rooms, cn, s, g) == Subscribers(rooms, cn, g)
SocketTo(rooms, cn, s, g) == Subscribers(rooms, cn, g) \ {s}

(* one event per recipient *)
Emit(recipients, ev, data) ==
    LET rs == SetToSeq(recipients)
    IN  [i \in 1..Len(rs) |-> [to |-> rs[i], event |-> ev, data |-> data]]

(* io.emit in place of socket.emit *)
SocketEmitBroadcast(c, ev, data) == Emit({r \in Sockets : conn[r] = "connected"}, ev, data)
(* socket.emit(ev, data): to the socket itself only *)
SocketEmit(c, ev, data) == Emit({c}, ev, data)

(* a snapshot read before the entry that was just written *)
SnapshotBeforeWrite(groupUsers) ==
    [i \in 1..(IF Len(groupUsers) > 1 THEN Len(groupUsers) - 1 ELSE Len(groupUsers)) |->
        [id |-> groupUsers[i].value.socketId, username |-> groupUsers[i].value.username]]
(* Array.from(groupUsers.values()).map(u => ({id: u.socketId, username: u.username})) *)
Snapshot(groupUsers) ==
    [i \in 1..Len(groupUsers) |->
        [id |-> groupUsers[i].value.socketId, username |-> groupUsers[i].value.username]]

(* a snapshot sent with io.emit *)
UsersUpdateEverywhere(rooms, cn, ou, g) ==
    Emit({c \in Sockets : cn[c] = "connected"}, "users:update",
         [groupId |-> g, users |-> Snapshot(MapGet(ou, g))])
UsersUpdate(rooms, cn, ou, g) ==
    Emit(IoTo(rooms, cn, g), "users:update",
         [groupId |-> g, users |-> Snapshot(MapGet(ou, g))])

(* if (!onlineUsers.has(groupId)) onlineUsers.set(groupId, new Map()) *)
EnsureGroup(ou, g) == IF MapHas(ou, g) THEN ou ELSE MapSet(ou, g, <<>>)

(* an entry added per connection, without looking for the userId's entry *)
SetPresenceAppend(ou, g, userId, username, socketId) ==
    MapSet(ou, g, Append(MapGet(ou, g),
                         [key |-> userId,
                          value |-> [username |-> username, socketId |-> socketId]]))

(* onlineUsers.get(groupId).set(userId, {username, socketId}) *)
SetPresence(ou, g, userId, username, socketId) ==
    MapSet(ou, g, MapSet(MapGet(ou, g), userId,
                         [username |-> username, socketId |-> socketId]))

(* a delete that is never made *)
DeletePresenceMissed(ou, g, userId) == ou
(* onlineUsers.get(groupId).delete(userId) *)
DeletePresence(ou, g, userId) == MapSet(ou, g, MapDelete(MapGet(ou, g), userId))

Truthy(v) == v # Undefined

(* a join that replaces the socket's rooms *)
SocketJoinExclusive(rooms, c, g) == [rooms EXCEPT ![c] = {g}]
(* socket.join(groupId) *)
SocketJoin(rooms, c, g) == [rooms EXCEPT ![c] = @ \cup {g}]

(* a leave that keeps the subscription *)
SocketLeaveKept(rooms, c, g) == rooms
(* socket.leave(groupId) *)
SocketLeave(rooms, c, g) == [rooms EXCEPT ![c] = @ \ {g}]

(***************************************************************************)
(* Handlers                                                                *)
(***************************************************************************)
(* io.on('connection') *)
Connect(c) ==
    /\ hub = "running"
    /\ conn[c] = "new"
    /\ conn' = [conn EXCEPT ![c] = "connected"]
    /\ outbox' = <<>>
    /\ UNCHANGED <<sockUserId, sockUsername, sockRooms, onlineUsers,
                   userStrikeState, bannedPatterns, now, ticks, restvars>>

(* socket.on('user:join') *)
UserJoin(c, userId, username, groupId) ==
    /\ hub = "running"
    /\ conn[c] = "connected"
    /\ sockUserId' = [sockUserId EXCEPT ![c] = userId]
    /\ sockUsername' = [sockUsername EXCEPT ![c] = username]
    /\ sockRooms' = SocketJoin(sockRooms, c, groupId)
    /\ onlineUsers' = SetPresence(EnsureGroup(onlineUsers, groupId), groupId, userId, username, c)
    /\ outbox' = UsersUpdate(sockRooms', conn, onlineUsers', groupId)
                 \o Emit(SocketTo(sockRooms', conn, c, groupId), "user:joined",
                         [groupId |-> groupId, username |-> username])
    /\ UNCHANGED <<conn, userStrikeState, bannedPatterns, now, ticks, restvars>>

(* socket.on('group:join') *)
GroupJoin(c, groupId) ==
    /\ hub = "running"
    /\ conn[c] = "connected"
    /\ sockRooms' = SocketJoin(sockRooms, c, groupId)
    /\ IF Truthy(sockUserId[c])
       THEN /\ onlineUsers' = SetPresence(EnsureGroup(onlineUsers, groupId), groupId,
                                          sockUserId[c], sockUsername[c], c)
            /\ outbox' = UsersUpdate(sockRooms', conn, onlineUsers', groupId)
       ELSE /\ onlineUsers' = EnsureGroup(onlineUsers, groupId)
            /\ outbox' = <<>>
    /\ UNCHANGED <<conn, sockUserId, sockUsername, userStrikeState, bannedPatterns,
                   now, ticks, restvars>>

(* socket.on('group:leave') *)
GroupLeave(c, groupId) ==
    /\ hub = "running"
    /\ conn[c] = "connected"
    /\ sockRooms' = SocketLeave(sockRooms, c, groupId)
    /\ IF MapHas(onlineUsers, groupId) /\ Truthy(sockUserId[c])
       THEN /\ onlineUsers' = DeletePresence(onlineUsers, groupId, sockUserId[c])
            /\ outbox' = UsersUpdate(sockRooms', conn, onlineUsers', groupId)
       ELSE /\ onlineUsers' = onlineUsers
            /\ outbox' = <<>>
    /\ UNCHANGED <<conn, sockUserId, sockUsername, userStrikeState, bannedPatterns,
                   now, ticks, restvars>>

(* onlineUsers.forEach(...) of the disconnect handler, groups i..Len(ou) *)
RECURSIVE DisconnectSweep(_, _, _, _, _)
DisconnectSweep(ou, i, userId, rooms, cn) ==
    IF i > Len(ou) THEN [ou |-> ou, out |-> <<>>]
    ELSE IF Truthy(userId) /\ MapHas(ou[i].value, userId)
         THEN LET ou1 == DeletePresence(ou, ou[i].key, userId)
                  rest == DisconnectSweep(ou1, i + 1, userId, rooms, cn)
              IN  [ou |-> rest.ou,
                   out |-> UsersUpdate(rooms, cn, ou1, ou[i].key) \o rest.out]
         ELSE DisconnectSweep(ou, i + 1, userId, rooms, cn)

(* socket.on('disconnect'): socket.io has already removed the socket from its rooms *)
Disconnect(c) ==
    /\ hub = "running"
    /\ conn[c] = "connected"
    /\ conn' = [conn EXCEPT ![c] = "disconnected"]
    /\ sockRooms' = [sockRooms EXCEPT ![c] = {}]
    /\ LET r == DisconnectSweep(onlineUsers, 1, sockUserId[c], sockRooms', conn')
       IN  /\ onlineUsers' = r.ou
           /\ outbox' = r.out
    /\ UNCHANGED <<sockUserId, sockUsername, userStrikeState, bannedPatterns, now, ticks,
                   restvars>>

(***************************************************************************)
(* Moderation                                                              *)
(***************************************************************************)
(* a get() that reads the strikes and not the mute *)
StrikeStateOfNoMute(uss, userId) ==
    IF userId \in DOMAIN uss THEN [strikes |-> uss[userId].strikes, bannedUntil |-> 0]
    ELSE [strikes |-> 0, bannedUntil |-> 0]
(* userStrikeState.get(userId) || { strikes: 0, bannedUntil: 0 } *)
StrikeStateOf(uss, userId) ==
    IF userId \in DOMAIN uss THEN uss[userId] ELSE [strikes |-> 0, bannedUntil |-> 0]

(* userStrikeState.set(userId, state) *)
StrikeSet(uss, userId, state) ==
    [k \in DOMAIN uss \cup {userId} |-> IF k = userId THEN state ELSE uss[k]]

(* a mute that never runs out *)
IsBannedForever(state, t) == state.bannedUntil # 0
(* state.bannedUntil && state.bannedUntil > now *)
IsBanned(state, t) == state.bannedUntil # 0 /\ state.bannedUntil > t

(* a find() that lets the empty pattern match *)
MatchedEmptyToo(patterns, content) ==
    LET text == toLowerCase(content)
    IN  \E i \in 1..Len(patterns) : includes(text, patterns[i])
(* bannedPatterns.find((p) => p && text.includes(p)) is not undefined *)
Matched(patterns, content) ==
    LET text == toLowerCase(content)
    IN  \E i \in 1..Len(patterns) : patterns[i] # <<>> /\ includes(text, patterns[i])

(* a limit of four strikes *)
StrikeLimitFour == 3 + 1
StrikeLimit == 3

(* the strike branch with the limit tested one strike too late *)
StrikeOffByOne(state, t) ==
    LET strikes == state.strikes + 1
    IN  IF strikes > StrikeLimit
        THEN [strikes |-> 0, bannedUntil |-> t + MuteMs]
        ELSE [strikes |-> strikes, bannedUntil |-> state.bannedUntil]
(* the strike branch: state after a matching message at time t *)
Strike(state, t) ==
    LET strikes == state.strikes + 1
    IN  IF strikes >= StrikeLimit
        THEN [strikes |-> 0, bannedUntil |-> t + MuteMs]
        ELSE [strikes |-> strikes, bannedUntil |-> state.bannedUntil]

(* socket.on('message:send') *)
MessageSend(c, messageData) ==
    LET userId == sockUserId[c]
        state == StrikeStateOf(userStrikeState, userId)
    IN  /\ hub = "running"
        /\ conn[c] = "connected"
        /\ IF IsBanned(state, now)
           THEN /\ outbox' = SocketEmit(c, "message:blocked",
                                  [reason |-> "banned", bannedUntil |-> state.bannedUntil])
                /\ userStrikeState' = userStrikeState
           ELSE IF Matched(bannedPatterns, messageData.content)
           THEN LET state1 == Strike(state, now)
                IN  /\ outbox' =
                          IF state.strikes + 1 >= StrikeLimit
                          THEN SocketEmit(c, "message:blocked",
                                    [reason |-> "muted", bannedUntil |-> state1.bannedUntil])
                          ELSE SocketEmit(c, "message:warning",
                                    [reason |-> "prohibited", strikes |-> state1.strikes])
                    /\ userStrikeState' = StrikeSet(userStrikeState, userId, state1)
           ELSE /\ outbox' = Emit(IoTo(sockRooms, conn, messageData.groupId),
                                  "message:new", messageData)
                /\ userStrikeState' = userStrikeState
        /\ UNCHANGED <<conn, sockUserId, sockUsername, sockRooms, onlineUsers,
                       bannedPatterns, now, ticks, restvars>>

(* app.post('/admin/ban') in memory-only mode (db = null), secret accepted *)
AdminBan(username) ==
    /\ hub = "running"
    /\ db = "null"
    /\ username # <<>>
    /\ nextIdBanned <= MaxBanned
    /\ LET doc == [_id |-> nextIdBanned, username |-> toLowerCase(trim(username))]
       IN  /\ nextIdBanned' = nextIdBanned + 1
           /\ bannedUsernames' = Append(bannedUsernames, doc)
           /\ bannedPatterns' = Append(bannedPatterns, doc.username)
    /\ outbox' = <<>>
    /\ UNCHANGED <<conn, sockUserId, sockUsername, sockRooms, onlineUsers,
                   userStrikeState, now, ticks, hub, dbvars, messages, extvars>>

(* a rebuild that keeps the list as it was *)
RebuildKeepsPatterns(bu) == bannedPatterns
(* bannedPatterns = inMemoryStore.bannedUsernames.map(b => b.username) *)
RebuildBannedPatterns(bu) == [i \in 1..Len(bu) |-> bu[i].username]

(* app.delete('/api/banned_usernames/:id') in memory-only mode, secret     *)
(* accepted: an id that is found is removed and bannedPatterns is rebuilt  *)
(* from what is left                                                       *)
AdminUnban(id) ==
    /\ hub = "running"
    /\ db = "null"
    /\ IF \E i \in 1..Len(bannedUsernames) : bannedUsernames[i]._id = id
       THEN /\ bannedUsernames' = SelectSeq(bannedUsernames, LAMBDA b : b._id # id)
            /\ bannedPatterns' = RebuildBannedPatterns(bannedUsernames')
       ELSE UNCHANGED <<bannedUsernames, bannedPatterns>>
    /\ outbox' = <<>>
    /\ UNCHANGED <<conn, sockUserId, sockUsername, sockRooms, onlineUsers,
                   userStrikeState, now, ticks, hub, dbvars, nextIdBanned, messages,
                   extvars>>

(* socket.on('user:join', ({ userId, username, groupId }) => ...) called    *)
(* without a payload: destructuring undefined throws a TypeError before    *)
(* the body runs; no listener catches it and the process terminates        *)
UserJoinNoPayload(c) ==
    /\ hub = "running"
    /\ conn[c] = "connected"
    /\ hub' = "crashed"
    /\ outbox' = <<>>
    /\ UNCHANGED <<conn, sockUserId, sockUsername, sockRooms, onlineUsers, userStrikeState,
                   bannedPatterns, now, ticks, dbvars, memvars, extvars>>

(* socket.on('message:send', (messageData) => ...) called without a        *)
(* payload: a muted sender is answered before messageData is read;         *)
(* otherwise messageData.content throws inside the try block and           *)
(* messageData.groupId throws again inside the catch block                 *)
MessageSendNoPayload(c) ==
    LET state == StrikeStateOf(userStrikeState, sockUserId[c])
    IN  /\ hub = "running"
        /\ conn[c] = "connected"
        /\ IF IsBanned(state, now)
           THEN /\ outbox' = SocketEmit(c, "message:blocked",
                                  [reason |-> "banned", bannedUntil |-> state.bannedUntil])
                /\ hub' = hub
           ELSE /\ outbox' = <<>>
                /\ hub' = "crashed"
        /\ UNCHANGED <<conn, sockUserId, sockUsername, sockRooms, onlineUsers,
                       userStrikeState, bannedPatterns, now, ticks, dbvars, memvars, extvars>>

(***************************************************************************)
(* MongoDB mode: the collections, the reloads and the admin endpoints      *)
(***************************************************************************)
HighlightInputs == {<<"A", "M">>, <<"p">>}
Gold == "#ffd700"

(* crypto.createHash('sha256').update(password).digest('hex') *)
Sha256(password) == <<"sha256", password>>

(* highlight_color || '#ffd700' *)
ColorOr(color) == IF Truthy(color) THEN color ELSE Gold

(* rows.map((r) => (r.username || '').toLowerCase()) *)
LoadedPatterns(rows) == [i \in 1..Len(rows) |-> toLowerCase(rows[i].username)]

(* rows.forEach((r) => highlightedUsernames.set(r.username.toLowerCase(), {...})) *)
RECURSIVE LoadedHighlights(_, _)
LoadedHighlights(m, rows) ==
    IF rows = <<>> THEN m
    ELSE LoadedHighlights(
             MapSet(m, toLowerCase(Head(rows).username),
                    [password_hash |-> Head(rows).password_hash,
                     highlight_color |-> ColorOr(Head(rows).highlight_color)]),
             Tail(rows))

(* a catch block that clears the list *)
ReloadedBannedOrEmpty(bp, load) == IF load.ok THEN LoadedPatterns(load.rows) ELSE <<>>
(* try { rows = await ...; bannedPatterns = rows.map(...) } catch { log } *)
ReloadedBanned(bp, load) == IF load.ok THEN LoadedPatterns(load.rows) ELSE bp

(* try { rows = await ...; highlightedUsernames = new Map(); rows.forEach(...) } catch { log } *)
ReloadedHighlights(hu, load) == IF load.ok THEN LoadedHighlights(<<>>, load.rows) ELSE hu

(* A reload in flight: find().toArray() has read the collection (or has    *)
(* failed) and the awaiting function has not resumed yet. chain tells that *)
(* loadHighlightedUsernames() is awaited after it.                         *)
FindIssued(kind, ok, chain, coll) ==
    [kind |-> kind, ok |-> ok, rows |-> IF ok THEN coll ELSE <<>>, chain |-> chain]

(* the startup block: connectMongo() resolved with a db handle, then       *)
(* await loadBannedPatterns(); await loadHighlightedUsernames()            *)
MongoReady(ok) ==
    /\ hub = "running"
    /\ db = "null"
    /\ db' = "ready"
    /\ loads' = loads \cup {FindIssued("banned", ok, TRUE, bannedColl)}
    /\ outbox' = <<>>
    /\ UNCHANGED <<conn, sockUserId, sockUsername, sockRooms, onlineUsers, userStrikeState,
                   bannedPatterns, now, ticks, hub, bannedColl, highlightedColl,
                   highlightedUsernames, memvars, extvars>>

(* setInterval(..., 60 * 1000): if (db) { await loadBannedPatterns(); ... } *)
RefreshTimer(ok) ==
    /\ hub = "running"
    /\ db = "ready"
    /\ Cardinality(loads) < MaxLoads
    /\ loads' = loads \cup {FindIssued("banned", ok, TRUE, bannedColl)}
    /\ outbox' = <<>>
    /\ UNCHANGED <<conn, sockUserId, sockUsername, sockRooms, onlineUsers, userStrikeState,
                   bannedPatterns, now, ticks, hub, db, bannedColl, highlightedColl,
                   highlightedUsernames, memvars, extvars>>

(* app.post('/admin/ban') with a database, secret accepted: insertOne, and *)
(* when it succeeded loadBannedPatterns() is called and not awaited        *)
AdminBanDb(username, inserted, ok) ==
    /\ hub = "running"
    /\ db = "ready"
    /\ username # <<>>
    /\ Len(bannedColl) < MaxRows
    /\ Cardinality(loads) < MaxLoads
    /\ IF inserted
       THEN /\ bannedColl' = Append(bannedColl, [username |-> toLowerCase(trim(username))])
            /\ loads' = loads \cup {FindIssued("banned", ok, FALSE, bannedColl')}
       ELSE UNCHANGED <<bannedColl, loads>>
    /\ outbox' = <<>>
    /\ UNCHANGED <<conn, sockUserId, sockUsername, sockRooms, onlineUsers, userStrikeState,
                   bannedPatterns, now, ticks, hub, db, highlightedColl,
                   highlightedUsernames, memvars, extvars>>

(* app.delete('/api/banned_usernames/:id') with a database, secret         *)
(* accepted and a well-formed id: deleteOne of the row with that _id (row  *)
(* 0: no row has it), and when it resolved loadBannedPatterns() is called  *)
(* and not awaited                                                         *)
AdminUnbanDb(row, resolved, ok) ==
    /\ hub = "running"
    /\ db = "ready"
    /\ row \in 0..Len(bannedColl)
    /\ Cardinality(loads) < MaxLoads
    /\ IF resolved
       THEN /\ bannedColl' = [i \in 1..(Len(bannedColl) - (IF row = 0 THEN 0 ELSE 1)) |->
                                 IF row = 0 \/ i < row THEN bannedColl[i]
                                 ELSE bannedColl[i + 1]]
            /\ loads' = loads \cup {FindIssued("banned", ok, FALSE, bannedColl')}
       ELSE UNCHANGED <<bannedColl, loads>>
    /\ outbox' = <<>>
    /\ UNCHANGED <<conn, sockUserId, sockUsername, sockRooms, onlineUsers, userStrikeState,
                   bannedPatterns, now, ticks, hub, db, highlightedColl,
                   highlightedUsernames, memvars, extvars>>

(* app.post('/admin/highlight') with a database, secret accepted: findOne, *)
(* insertOne unless the username exists, await loadHighlightedUsernames()  *)
AdminHighlightDb(username, password, color, ok) ==
    /\ hub = "running"
    /\ db = "ready"
    /\ username # <<>>
    /\ Truthy(password)
    /\ Len(highlightedColl) < MaxRows
    /\ Cardinality(loads) < MaxLoads
    /\ LET usernameLower == toLowerCase(trim(username))
       IN  IF \E i \in 1..Len(highlightedColl) : highlightedColl[i].username = usernameLower
           THEN UNCHANGED <<highlightedColl, loads>>
           ELSE /\ highlightedColl' =
                      Append(highlightedColl,
                             [username |-> usernameLower, password_hash |-> Sha256(password),
                              highlight_color |-> ColorOr(color)])
                /\ loads' = loads \cup {FindIssued("highlighted", ok, FALSE, highlightedColl')}
    /\ outbox' = <<>>
    /\ UNCHANGED <<conn, sockUserId, sockUsername, sockRooms, onlineUsers, userStrikeState,
                   bannedPatterns, now, ticks, hub, db, bannedColl,
                   highlightedUsernames, memvars, extvars>>

(* the await of a reload resumes: the assignment, or the catch block; a    *)
(* chained reload then calls loadHighlightedUsernames(), whose find() may  *)
(* fail as well                                                            *)
LoadResume(load, ok) ==
    /\ hub = "running"
    /\ load \in loads
    /\ bannedPatterns' = IF load.kind = "banned"
                         THEN ReloadedBanned(bannedPatterns, load) ELSE bannedPatterns
    /\ highlightedUsernames' = IF load.kind = "highlighted"
                               THEN ReloadedHighlights(highlightedUsernames, load)
                               ELSE highlightedUsernames
    /\ loads' = (loads \ {load}) \cup
                 (IF load.chain THEN {FindIssued("highlighted", ok, FALSE, highlightedColl)}
                                ELSE {})
    /\ outbox' = <<>>
    /\ UNCHANGED <<conn, sockUserId, sockUsername, sockRooms, onlineUsers, userStrikeState,
                   now, ticks, hub, db, bannedColl, highlightedColl, memvars, extvars>>

(* { name: 'Global Chat', ..., is_global: true } *)
GlobalDoc == [name |-> "Global Chat", is_global |-> TRUE]

(* rows.some(g => g.is_global) *)
HasGlobal(rows) == \E i \in 1..Len(rows) : rows[i].is_global

(* app.get('/api/groups') with a database, up to the first await:          *)
(* find().sort().toArray() has read the collection                         *)
GetGroupsFind(r) ==
    /\ hub = "running"
    /\ db = "ready"
    /\ groupReqs[r].pc = "idle"
    /\ groupReqs' = [groupReqs EXCEPT ![r] = [pc |-> "found", rows |-> groupsColl]]
    /\ outbox' = <<>>
    /\ UNCHANGED <<conn, sockUserId, sockUsername, sockRooms, onlineUsers, userStrikeState,
                   bannedPatterns, now, ticks, hub, dbvars, memvars, groupsColl, groups,
                   nextIdGroups, mongovars>>

(* the handler resumes with rows: insertOne(globalDoc) unless a row is     *)
(* global, then res.json(rows)                                             *)
GetGroupsEnsure(r) ==
    /\ hub = "running"
    /\ groupReqs[r].pc = "found"
    /\ groupsColl' = IF HasGlobal(groupReqs[r].rows) THEN groupsColl
                     ELSE Append(groupsColl, GlobalDoc)
    /\ groupReqs' = [groupReqs EXCEPT ![r] = [pc |-> "done", mode |-> "db"]]
    /\ outbox' = <<>>
    /\ UNCHANGED <<conn, sockUserId, sockUsername, sockRooms, onlineUsers, userStrikeState,
                   bannedPatterns, now, ticks, hub, dbvars, memvars, groups, nextIdGroups,
                   mongovars>>

(* app.get('/api/groups') without a database: one synchronous block *)
GetGroupsMemory(r) ==
    /\ hub = "running"
    /\ db = "null"
    /\ groupReqs[r].pc = "idle"
    /\ IF HasGlobal(MapValues(groups))
       THEN UNCHANGED <<groups, nextIdGroups>>
       ELSE /\ groups' = MapSet(groups, nextIdGroups, GlobalDoc)
            /\ nextIdGroups' = nextIdGroups + 1
    /\ groupReqs' = [groupReqs EXCEPT ![r] = [pc |-> "done", mode |-> "memory"]]
    /\ outbox' = <<>>
    /\ UNCHANGED <<conn, sockUserId, sockUsername, sockRooms, onlineUsers, userStrikeState,
                   bannedPatterns, now, ticks, hub, dbvars, memvars, groupsColl, mongovars>>

(***************************************************************************)
(* server/mongoClient.js. A promise of connectMongo's async block is an    *)
(* entry of attempts: pc is where the block stands ("race": awaiting        *)
(* Promise.race, "ping": awaiting the ping, "resolved"), value what it     *)
(* resolved with (0: null), link the state of the MongoClient it created   *)
(* ("none" when it created none).                                          *)
(***************************************************************************)
srvvars == <<pvars, hub, dbvars, memvars, grpvars>>

(* const MONGO_URI = process.env.MONGO_URI *)
ModuleLoad(uri) ==
    /\ mongoUri = "unread"
    /\ mongoUri' = uri
    /\ UNCHANGED <<client, clientDb, connectionPromise, attempts, calls, closing, srvvars>>

(* connectMongo(), up to its return: the async block runs to its first     *)
(* await, and connectionPromise = (async () => {...})() is assigned after  *)
(* that. new MongoClient(uri) throws on a connection string it cannot      *)
(* parse, inside the try block.                                            *)
ConnectMongo ==
    /\ mongoUri # "unread"
    /\ Len(calls) < MaxCalls
    /\ LET p == Len(attempts) + 1
       IN  IF mongoUri = "unset"
           THEN /\ calls' = Append(calls, 0)
                /\ UNCHANGED <<client, clientDb, connectionPromise, attempts>>
           ELSE IF connectionPromise # 0
           THEN /\ calls' = Append(calls, connectionPromise)
                /\ UNCHANGED <<client, clientDb, connectionPromise, attempts>>
           ELSE /\ calls' = Append(calls, p)
                /\ connectionPromise' = p
                /\ IF client # 0 /\ clientDb # 0
                   THEN /\ attempts' = Append(attempts, [pc |-> "resolved", value |-> clientDb,
                                                         link |-> "none"])
                        /\ UNCHANGED <<client, clientDb>>
                   ELSE IF mongoUri = "invalid"
                   THEN /\ attempts' = Append(attempts, [pc |-> "resolved", value |-> 0,
                                                         link |-> "none"])
                        /\ client' = 0
                        /\ clientDb' = 0
                   ELSE /\ attempts' = Append(attempts, [pc |-> "race", value |-> 0,
                                                         link |-> "connecting"])
                        /\ client' = p
                        /\ UNCHANGED clientDb
    /\ UNCHANGED <<mongoUri, closing, srvvars>>

(* the catch block of attempt p, whose client is left in state link *)
CatchReset(p, link) ==
    /\ client' = 0
    /\ clientDb' = 0
    /\ connectionPromise' = 0
    /\ attempts' = [attempts EXCEPT ![p] = [pc |-> "resolved", value |-> 0, link |-> link]]

(* await Promise.race([client.connect(), 4000 ms timer]) resumes:          *)
(* connected, connect rejected, or the timer first while connect goes on;  *)
(* then db = client.db('global_chat'), a TypeError when client is null     *)
RaceSettles(p, outcome) ==
    /\ p \in 1..Len(attempts)
    /\ attempts[p].pc = "race"
    /\ outcome = "connected" => attempts[p].link = "connecting"
    /\ IF outcome = "connected"
       THEN IF client = 0
            THEN CatchReset(p, "connected")
            ELSE /\ clientDb' = client
                 /\ attempts' = [attempts EXCEPT ![p] = [pc |-> "ping", value |-> 0,
                                                         link |-> "connected"]]
                 /\ UNCHANGED <<client, connectionPromise>>
       ELSE IF outcome = "rejected"
       THEN CatchReset(p, IF attempts[p].link = "connecting" THEN "failed"
                          ELSE attempts[p].link)
       ELSE CatchReset(p, attempts[p].link)
    /\ UNCHANGED <<mongoUri, calls, closing, srvvars>>

(* await adminDb.command({ ping: 1 }) resumes: return db, or the catch block *)
PingSettles(p, ok) ==
    /\ p \in 1..Len(attempts)
    /\ attempts[p].pc = "ping"
    /\ IF ok
       THEN /\ attempts' = [attempts EXCEPT ![p] = [pc |-> "resolved", value |-> clientDb,
                                                    link |-> attempts[p].link]]
            /\ UNCHANGED <<client, clientDb, connectionPromise>>
       ELSE CatchReset(p, attempts[p].link)
    /\ UNCHANGED <<mongoUri, calls, closing, srvvars>>

(* the connect() of a client whose attempt the timer ended comes to an end *)
ClientSettles(k, ok) ==
    /\ k \in 1..Len(attempts)
    /\ attempts[k].pc = "resolved"
    /\ attempts[k].link = "connecting"
    /\ attempts' = [attempts EXCEPT ![k].link = IF ok THEN "connected" ELSE "failed"]
    /\ UNCHANGED <<mongoUri, client, clientDb, connectionPromise, calls, closing, srvvars>>

(* closeMongo(), up to await client.close() *)
CloseMongo ==
    /\ client # 0
    /\ closing = 0
    /\ closing' = client
    /\ attempts' = [attempts EXCEPT ![client].link = "closed"]
    /\ UNCHANGED <<mongoUri, client, clientDb, connectionPromise, calls, srvvars>>

(* closeMongo() resumes: client = null; db = null *)
CloseResume ==
    /\ closing # 0
    /\ closing' = 0
    /\ client' = 0
    /\ clientDb' = 0
    /\ UNCHANGED <<mongoUri, connectionPromise, attempts, calls, srvvars>>

(***************************************************************************)
(* src/components/MobileChatApp.tsx: the client on MobileSocket, logged in *)
(* as MobileUser. An entry of pendingJoins is a joinGroup() call: pc       *)
(* "http" while it awaits POST /api/group_members, "sent" when group:join  *)
(* has been handled by the server and user:join, emitted right after it,   *)
(* has not yet.                                                            *)
(***************************************************************************)
MobileSocket == "c1"
MobileUser == "u1"

Emitting == \E i \in 1..Len(pendingJoins) : pendingJoins[i].pc = "sent"

RemoveAt(q, i) == [k \in 1..(Len(q) - 1) |-> IF k < i THEN q[k] ELSE q[k + 1]]

(* handleSelectGroup(group): group:leave for the active group, if any, is  *)
(* emitted and handled; setActiveGroup(group); joinGroup(group.id) starts  *)
(* its fetch                                                               *)
MobileSelectGroup(g) ==
    /\ conn[MobileSocket] = "connected"
    /\ ~Emitting
    /\ Len(pendingJoins) < MaxPending
    /\ IF activeGroup # Undefined
       THEN GroupLeave(MobileSocket, activeGroup)
       ELSE hub = "running" /\ UNCHANGED <<pvars, restvars>>
    /\ activeGroup' = g
    /\ pendingJoins' = Append(pendingJoins, [groupId |-> g, pc |-> "http"])

(* joinGroup resumes after its fetch, whether it succeeded or threw:       *)
(* socket.emit('group:join', { groupId }), handled by the server           *)
MobileJoinEmitted(i) ==
    /\ i \in 1..Len(pendingJoins)
    /\ ~Emitting
    /\ pendingJoins[i].pc = "http"
    /\ GroupJoin(MobileSocket, pendingJoins[i].groupId)
    /\ pendingJoins' = [pendingJoins EXCEPT ![i].pc = "sent"]
    /\ UNCHANGED activeGroup

(* socket.emit('user:join', { userId, username, groupId }) of the same     *)
(* joinGroup call, handled by the server                                   *)
MobileUserJoinHandled(i) ==
    /\ i \in 1..Len(pendingJoins)
    /\ pendingJoins[i].pc = "sent"
    /\ UserJoin(MobileSocket, MobileUser, UsernameOf(MobileUser), pendingJoins[i].groupId)
    /\ pendingJoins' = RemoveAt(pendingJoins, i)
    /\ UNCHANGED activeGroup

(* passage of time between events *)
Tick(d) ==
    /\ hub = "running"
    /\ ticks < MaxTicks
    /\ now' = now + d
    /\ ticks' = ticks + 1
    /\ outbox' = <<>>
    /\ UNCHANGED <<conn, sockUserId, sockUsername, sockRooms, onlineUsers,
                   userStrikeState, bannedPatterns, restvars>>

(***************************************************************************)
(* Presence: the join / leave / disconnect handlers under every input      *)
(***************************************************************************)
Next ==
    \/ \E c \in Sockets : Connect(c) /\ UNCHANGED envvars
    \/ \E c \in Sockets, u \in UserIds, g \in Rooms :
          UserJoin(c, u, UsernameOf(u), g) /\ UNCHANGED envvars
    \/ \E c \in Sockets, g \in Rooms : GroupJoin(c, g) /\ UNCHANGED envvars
    \/ \E c \in Sockets, g \in Rooms : GroupLeave(c, g) /\ UNCHANGED envvars
    \/ \E c \in Sockets : Disconnect(c) /\ UNCHANGED envvars

Spec == Init /\ [][Next]_vars

(***************************************************************************)
(* Presence with an observer of the join and leave events of each          *)
(* (room, userId) pair                                                     *)
(***************************************************************************)
(* the room whose join and leave events are counted *)
CountedRoom == "R1"

(* a join event of identity u on room g *)
ObserveJoin(g, u) ==
    /\ g = CountedRoom => netCount[u] < MaxNet
    /\ joined' = joined \cup {<<g, u>>}
    /\ netCount' = IF g = CountedRoom THEN [netCount EXCEPT ![u] = @ + 1] ELSE netCount

(* a leave event of identity u on room g; it matches one earlier join *)
ObserveLeave(g, u) ==
    /\ joined' = joined \ {<<g, u>>}
    /\ netCount' = IF g = CountedRoom /\ netCount[u] > 0
                   THEN [netCount EXCEPT ![u] = @ - 1] ELSE netCount

(* a disconnect ends every membership of identity u *)
ObserveDisconnect(u) ==
    /\ joined' = {k \in joined : k[2] # u}
    /\ netCount' = [netCount EXCEPT ![u] = 0]

NextCount ==
    \/ \E c \in Sockets : Connect(c) /\ UNCHANGED envvars
    \/ \E c \in Sockets, u \in UserIds, g \in Rooms :
          UserJoin(c, u, UsernameOf(u), g) /\ ObserveJoin(g, u) /\ UNCHANGED <<hist, sent, seen, clientvars>>
    \/ \E c \in Sockets, g \in Rooms :
          /\ GroupJoin(c, g)
          /\ IF Truthy(sockUserId[c]) THEN ObserveJoin(g, sockUserId[c])
                                      ELSE UNCHANGED <<joined, netCount>>
          /\ UNCHANGED <<hist, sent, seen, clientvars>>
    \/ \E c \in Sockets, g \in Rooms :
          /\ GroupLeave(c, g)
          /\ IF Truthy(sockUserId[c]) THEN ObserveLeave(g, sockUserId[c])
                                      ELSE UNCHANGED <<joined, netCount>>
          /\ UNCHANGED <<hist, sent, seen, clientvars>>
    \/ \E c \in Sockets :
          /\ Disconnect(c)
          /\ IF Truthy(sockUserId[c]) THEN ObserveDisconnect(sockUserId[c])
                                      ELSE UNCHANGED <<joined, netCount>>
          /\ UNCHANGED <<hist, sent, seen, clientvars>>

SpecCount == Init /\ [][NextCount]_vars

(***************************************************************************)
(* Views of the presence registry used by the properties                   *)
(***************************************************************************)
GroupUsers(ou, g) == IF MapHas(ou, g) THEN MapGet(ou, g) ELSE <<>>

KeySeq(m) == [i \in 1..Len(m) |-> m[i].key]

PresentUsers(ou, g) == MapKeys(GroupUsers(ou, g))

Entries(ou) ==
    UNION {{[room |-> g, userId |-> GroupUsers(ou, g)[i].key,
             socketId |-> GroupUsers(ou, g)[i].value.socketId] :
                i \in 1..Len(GroupUsers(ou, g))} : g \in Rooms}

RoomsOfSocket(ou, c) == {e.room : e \in {x \in Entries(ou) : x.socketId = c}}

OutEvents(ev) == {outbox[i] : i \in {j \in 1..Len(outbox) : outbox[j].event = ev}}

(***************************************************************************)
(* Presence properties                                                     *)
(***************************************************************************)

(* C4 (as claimed): a disconnect of connection c leaves no presence entry  *)
(* of c in any room and removes no entry whose connection id is another,   *)
(* still-connected socket.                                                 *)
DisconnectRemovesOwnEntriesOnly ==
    [][\A c \in Sockets :
          Disconnect(c) =>
             /\ \A e \in Entries(onlineUsers') : e.socketId # c
             /\ \A e \in Entries(onlineUsers) :
                   (e.socketId # c /\ conn[e.socketId] = "connected")
                      => e \in Entries(onlineUsers')]_vars

(* C5 (as claimed): every presence entry references a connected socket and *)
(* no users:update lists the socket id of a disconnected connection.       *)
PresenceEntriesAreLive ==
    /\ \A e \in Entries(onlineUsers) : conn[e.socketId] = "connected"
    /\ \A ev \in OutEvents("users:update") :
          \A i \in 1..Len(ev.data.users) : conn[ev.data.users[i].id] = "connected"

SnapshotIsNetPositive ==
    PresentUsers(onlineUsers, CountedRoom) = {u \in UserIds : netCount[u] > 0}

(* C7 (amended): the presence snapshot of every room is the set of         *)
(* identities whose latest join or leave event on that room was a join     *)
(* (a disconnect counting as a leave of every room), whatever happened on  *)
(* other rooms.                                                            *)
SnapshotIsLatestJoin ==
    \A g \in Rooms : PresentUsers(onlineUsers, g) = {u \in UserIds : <<g, u>> \in joined}

JoinedTwiceLeftOnce ==
    /\ netCount["u1"] = 1
    /\ <<CountedRoom, "u1">> \notin joined
    /\ "u1" \notin PresentUsers(onlineUsers, CountedRoom)
    /\ "u2" \in PresentUsers(onlineUsers, "R2")

(* C8: a room's entries keep their insertion order: entries that survive a *)
(* step keep their relative order, a newly inserted userId comes after     *)
(* every entry already there, and each users:update lists the room's       *)
(* entries in that order. After alice (c1) then bob (c2) joined R1, the     *)
(* disconnect of bob's connection sends the snapshot [alice] to alice only.*)
SnapshotInInsertionOrder ==
    [][/\ \A g \in Rooms :
             LET old == KeySeq(GroupUsers(onlineUsers, g))
                 new == KeySeq(GroupUsers(onlineUsers', g))
                 InOld(k) == \E i \in 1..Len(old) : old[i] = k
                 OldIdx(k) == CHOOSE i \in 1..Len(old) : old[i] = k
             IN  \A i, j \in 1..Len(new) :
                    i < j =>
                       /\ (InOld(new[i]) /\ InOld(new[j])) => OldIdx(new[i]) < OldIdx(new[j])
                       /\ InOld(new[j]) => InOld(new[i])
       /\ \A i \in 1..Len(outbox') :
             outbox'[i].event = "users:update" =>
                LET gu == GroupUsers(onlineUsers', outbox'[i].data.groupId)
                IN  outbox'[i].data.users =
                       [k \in 1..Len(gu) |->
                           [id |-> gu[k].value.socketId, username |-> gu[k].value.username]]
       /\ ( /\ Disconnect("c2")
            /\ sockUserId["c2"] = "u2"
            /\ Snapshot(GroupUsers(onlineUsers, "R1")) =
                  <<[id |-> "c1", username |-> "alice"], [id |-> "c2", username |-> "bob"]>>
            /\ "R1" \in sockRooms["c1"] )
          => \E i \in 1..Len(outbox') :
                /\ outbox'[i] = [to |-> "c1", event |-> "users:update",
                                 data |-> [groupId |-> "R1",
                                           users |-> <<[id |-> "c1", username |-> "alice"]>>]]
                /\ \A j \in 1..Len(outbox') :
                      outbox'[j].data.groupId = "R1" => j = i]_vars

AliceThenBob ==
    \A c \in Sockets :
        \E ev \in OutEvents("users:update") :
            /\ ev.to = c
            /\ ev.data = [groupId |-> "R1",
                          users |-> <<[id |-> "c1", username |-> "alice"],
                                      [id |-> "c2", username |-> "bob"]>>]

(* C9: a room holds at most one entry per userId; a join of a userId that  *)
(* is already present keeps the size of the room's registry and binds the  *)
(* entry to the joining connection.                                        *)
OneEntryPerUserLastWriterWins ==
    [][/\ \A g \in Rooms :
             Cardinality(PresentUsers(onlineUsers', g)) = Len(GroupUsers(onlineUsers', g))
       /\ \A c \in Sockets, g \in Rooms, u \in UserIds :
             ( /\ UserJoin(c, u, UsernameOf(u), g) \/ (GroupJoin(c, g) /\ sockUserId[c] = u)
               /\ u \in PresentUsers(onlineUsers, g) )
             => /\ Len(GroupUsers(onlineUsers', g)) = Len(GroupUsers(onlineUsers, g))
                /\ MapGet(GroupUsers(onlineUsers', g), u).socketId = c]_vars

SecondConnectionTookOver ==
    /\ conn = [c \in Sockets |-> "connected"]
    /\ sockUserId = [c \in Sockets |-> "u1"]
    /\ sockRooms = [c \in Sockets |-> {"R1"}]
    /\ Len(GroupUsers(onlineUsers, "R1")) = 1
    /\ MapGet(GroupUsers(onlineUsers, "R1"), "u1").socketId = "c2"

(***************************************************************************)
(* Chat: joins, leaves, disconnects, sends and admin bans at one instant   *)
(* of the clock; each client is logged in as its own user and sends once   *)
(* it has joined a room                                                    *)
(***************************************************************************)
(* const state = userStrikeState.get(socket.userId) || {...} *)
SenderState(c) == StrikeStateOf(userStrikeState, sockUserId[c])

(* the user a client is logged in as (useAuth) *)
ClientUser(c) == IF c = "c1" THEN "u1" ELSE "u2"

(* the payload a client builds in handleSendMessage, for any input text *)
MessagePayloads(c) ==
    {[groupId |-> g, userId |-> ClientUser(c), username |-> UsernameOf(ClientUser(c)),
      content |-> t] : g \in Rooms, t \in Contents}

(* The observer keeps the send being answered: the sending socket, the     *)
(* payload and the strike state the handler read; any other event clears   *)
(* it.                                                                     *)
NoSend == [socket |-> Undefined]

ObserveMessage(c, md) ==
    /\ sent' = [socket |-> c, data |-> md, state |-> SenderState(c)]
    /\ UNCHANGED <<joined, netCount, hist, seen, clientvars>>

ObserveOther ==
    /\ sent' = NoSend
    /\ UNCHANGED <<joined, netCount, hist, seen, clientvars>>

NextChat ==
    \/ \E c \in Sockets : Connect(c) /\ ObserveOther
    \/ \E c \in Sockets, g \in Rooms :
          UserJoin(c, ClientUser(c), UsernameOf(ClientUser(c)), g) /\ ObserveOther
    \/ \E c \in Sockets, g \in Rooms : GroupLeave(c, g) /\ ObserveOther
    \/ \E c \in Sockets : Disconnect(c) /\ ObserveOther
    \/ \E c \in Sockets : \E md \in MessagePayloads(c) :
          /\ Truthy(sockUserId[c])
          /\ MessageSend(c, md)
          /\ ObserveMessage(c, md)
    \/ \E u \in BanInputs : AdminBan(u) /\ ObserveOther

SpecChat == Init /\ [][NextChat]_vars

(***************************************************************************)
(* Fan-out properties                                                      *)
(***************************************************************************)
(* number of events of the outbox equal to e *)
Copies(out, e) == Cardinality({i \in 1..Len(out) : out[i] = e})

(* C2: a message:send whose content matches no banned pattern, from a      *)
(* sender that is not muted, is emitted as message:new exactly once to     *)
(* every connection in the target room (subscribed or present in its       *)
(* registry), the sender included when it is in the room, and to no other  *)
(* connection.                                                             *)
CleanMessageReachesExactlyTheRoom ==
    ( /\ sent # NoSend
      /\ ~Matched(bannedPatterns, sent.data.content)
      /\ ~IsBanned(sent.state, now) )
    => /\ \A r \in Sockets :
             ( \/ (conn[r] = "connected" /\ sent.data.groupId \in sockRooms[r])
               \/ sent.data.groupId \in RoomsOfSocket(onlineUsers, r) )
             => Copies(outbox, [to |-> r, event |-> "message:new", data |-> sent.data]) = 1
       /\ \A i \in 1..Len(outbox) :
             /\ outbox[i].event = "message:new"
             /\ outbox[i].data = sent.data
             /\ conn[outbox[i].to] = "connected"
             /\ sent.data.groupId \in sockRooms[outbox[i].to]
             /\ Copies(outbox, outbox[i]) = 1

EchoedToSenderNotToOutsider ==
    /\ sent # NoSend
    /\ sent.socket = "c1"
    /\ conn = [c \in Sockets |-> "connected"]
    /\ sockRooms["c1"] = {sent.data.groupId}
    /\ sockRooms["c2"] = Rooms \ {sent.data.groupId}
    /\ \E ev \in OutEvents("message:new") : ev.to = "c1"
    /\ \A i \in 1..Len(outbox) : outbox[i].to = "c1"

(* C3: a message:send that is answered by a warning or a block emits that  *)
(* one notice to the sending connection and nothing else: no message:new   *)
(* to anyone.                                                              *)
ModeratedMessageIsNotFannedOut ==
    ( /\ sent # NoSend
      /\ Matched(bannedPatterns, sent.data.content) \/ IsBanned(sent.state, now) )
    => /\ Len(outbox) = 1
       /\ outbox[1].to = sent.socket
       /\ outbox[1].event \in {"message:warning", "message:blocked"}

BlockedInOccupiedRoom ==
    /\ sent # NoSend
    /\ \A c \in Sockets : conn[c] = "connected" /\ sent.data.groupId \in sockRooms[c]
    /\ Len(outbox) = 1
    /\ outbox[1].event = "message:blocked"

(* C10 (as claimed): a message:send with empty or whitespace-only content  *)
(* emits no event and leaves the strike state unchanged.                   *)
EmptyContentIsDropped ==
    [][\A c \in Sockets : \A md \in MessagePayloads(c) :
          (MessageSend(c, md) /\ trim(md.content) = <<>>)
          => /\ outbox' = <<>>
             /\ userStrikeState' = userStrikeState]_vars

(***************************************************************************)
(* Moderation over time: one user, logged in on every connection, joins    *)
(* R1 and sends; admin bans and clock steps; with an observer of the       *)
(* user's run of sends                                                     *)
(***************************************************************************)
ModeratedUser == "u1"

ModerationPayloads ==
    {[groupId |-> "R1", userId |-> ModeratedUser, username |-> UsernameOf(ModeratedUser),
      content |-> t] : t \in {StrHello, StrThisIsSpam}}

(* The observer follows, per userId, the run of sends that starts with a   *)
(* matching send in state strikes = 0, not muted: three matching sends, a  *)
(* fourth send before the mute of the third is over, and a non-matching    *)
(* send after it is over. It records what each of them was answered with.  *)
ObserveSend(c, md) ==
    LET u == sockUserId[c]
        h == hist[u]
        pre == SenderState(c)
        m == Matched(bannedPatterns, md.content)
        rec == [socket |-> c, at |-> now, out |-> outbox',
                inRoom |-> md.groupId \in sockRooms[c]]
        fresh == IF pre.strikes = 0 /\ ~IsBanned(pre, now) /\ m THEN <<rec>> ELSE <<>>
        until == h[3].at + 600000
        h1 == CASE Len(h) \in {1, 2} -> IF m THEN Append(h, rec) ELSE fresh
                [] Len(h) = 3 -> IF now < until THEN Append(h, rec) ELSE fresh
                [] Len(h) = 4 -> IF now > until /\ ~m THEN Append(h, rec)
                                 ELSE IF now < until THEN h ELSE fresh
                [] OTHER -> fresh
    IN  /\ hist' = [hist EXCEPT ![u] = h1]
        /\ UNCHANGED <<joined, netCount, sent, seen, clientvars>>

NextModeration ==
    \/ \E c \in Sockets : Connect(c) /\ UNCHANGED envvars
    \/ \E c \in Sockets :
          UserJoin(c, ModeratedUser, UsernameOf(ModeratedUser), "R1") /\ UNCHANGED envvars
    \/ \E c \in Sockets, md \in ModerationPayloads :
          /\ sockUserId[c] = ModeratedUser
          /\ MessageSend(c, md)
          /\ ObserveSend(c, md)
    \/ \E u \in BanInputs : AdminBan(u) /\ UNCHANGED envvars
    \/ \E d \in {Second, MuteMs} : Tick(d) /\ UNCHANGED envvars

SpecModeration == Init /\ [][NextModeration]_vars

(***************************************************************************)
(* Moderation properties                                                   *)
(***************************************************************************)
Notice(h, i, ev, data) == h[i].out = <<[to |-> h[i].socket, event |-> ev, data |-> data]>>

(* C1: from strikes = 0 and not muted, three consecutive matching sends    *)
(* are answered with warning(strikes = 1), warning(strikes = 2) and        *)
(* blocked(mutedUntil = time of the third send + 10 minutes); a fourth     *)
(* send before that time is answered with blocked carrying the same        *)
(* mutedUntil; a non-matching send after that time is emitted as           *)
(* message:new and reaches the sender when it is in the room.              *)
ThreeStrikesThenMute ==
    \A u \in UserKeys :
        LET h == hist[u]
        IN  /\ Len(h) >= 1 =>
                  Notice(h, 1, "message:warning", [reason |-> "prohibited", strikes |-> 1])
            /\ Len(h) >= 2 =>
                  Notice(h, 2, "message:warning", [reason |-> "prohibited", strikes |-> 2])
            /\ Len(h) >= 3 =>
                  Notice(h, 3, "message:blocked",
                         [reason |-> "muted", bannedUntil |-> h[3].at + 600000])
            /\ Len(h) >= 4 =>
                  Notice(h, 4, "message:blocked",
                         [reason |-> "banned", bannedUntil |-> h[3].at + 600000])
            /\ Len(h) >= 5 =>
                  /\ \A i \in 1..Len(h[5].out) : h[5].out[i].event = "message:new"
                  /\ h[5].inRoom =>
                        \E i \in 1..Len(h[5].out) : h[5].out[i].to = h[5].socket

MutedThenDeliveredAgain ==
    /\ Len(hist[ModeratedUser]) = 5
    /\ hist[ModeratedUser][4].at > hist[ModeratedUser][3].at
    /\ hist[ModeratedUser][5].inRoom

(***************************************************************************)
(* Pattern removal: each client joins as its own user and sends; the admin *)
(* adds banned usernames and deletes them again (memory-only mode)         *)
(***************************************************************************)
(* ids a delete request can name: those handed out and one that never was *)
BanIds == 1..(MaxBanned + 1)

UnbanPayloads(c) ==
    {[groupId |-> g, userId |-> ClientUser(c), username |-> UsernameOf(ClientUser(c)),
      content |-> t] : g \in Rooms, t \in {StrHello, StrThisIsSpam}}

NextUnban ==
    \/ \E c \in Sockets : Connect(c) /\ ObserveOther
    \/ \E c \in Sockets, g \in Rooms :
          UserJoin(c, ClientUser(c), UsernameOf(ClientUser(c)), g) /\ ObserveOther
    \/ \E c \in Sockets : \E md \in UnbanPayloads(c) :
          /\ Truthy(sockUserId[c])
          /\ MessageSend(c, md)
          /\ ObserveMessage(c, md)
    \/ \E u \in BanInputs : AdminBan(u) /\ ObserveOther
    \/ \E id \in BanIds : AdminUnban(id) /\ ObserveOther

SpecUnban == Init /\ [][NextUnban]_vars

(* every banned username that was added has been deleted again: the last  *)
(* delete rebuilt the pattern list from an empty store                     *)
ReplacedWithEmpty == nextIdBanned > 1 /\ bannedUsernames = <<>>

(* the send recorded in sent was emitted as message:new to the sockets of *)
(* its room, and nothing else was emitted                                  *)
FannedOut ==
    /\ \A i \in 1..Len(outbox) :
          /\ outbox[i].event = "message:new"
          /\ outbox[i].data = sent.data
    /\ {outbox[i].to : i \in 1..Len(outbox)} =
          {r \in Sockets : conn[r] = "connected" /\ sent.data.groupId \in sockRooms[r]}

(* C11 (as claimed): once the pattern list has been replaced with the      *)
(* empty list, every message:send, whatever its content and sender, is     *)
(* fanned out as message:new and none is answered with message:blocked.    *)
EmptyListAllowsEverySend ==
    (sent # NoSend /\ ReplacedWithEmpty) => FannedOut

(* C11 (amended): once the pattern list has been replaced with the empty   *)
(* list, every message:send from a sender that is not muted at that time   *)
(* is fanned out as message:new, whatever its content; a sender whose mute *)
(* has not run out is still answered with message:blocked.                 *)
EmptyListAllowsUnmutedSend ==
    (sent # NoSend /\ ReplacedWithEmpty)
    => IF sent.state.bannedUntil > now
       THEN outbox = <<[to |-> sent.socket, event |-> "message:blocked",
                        data |-> [reason |-> "banned",
                                  bannedUntil |-> sent.state.bannedUntil]]>>
       ELSE FannedOut

FormerlyBannedTextDelivered ==
    /\ sent # NoSend
    /\ ReplacedWithEmpty
    /\ sent.data.content = StrThisIsSpam
    /\ sent.state.strikes = 2
    /\ \E ev \in OutEvents("message:new") : ev.to = sent.socket

(***************************************************************************)
(* Reloads: the database becomes available, the admin adds banned and      *)
(* highlighted usernames, the timer fires; every find() may fail           *)
(***************************************************************************)
NoneSeen == [kind |-> Undefined]

ObserveLoad(load) ==
    /\ seen' = load
    /\ UNCHANGED <<joined, netCount, hist, sent, clientvars>>

NextReload ==
    \/ \E ok \in BOOLEAN : MongoReady(ok) /\ UNCHANGED envvars
    \/ \E ok \in BOOLEAN : RefreshTimer(ok) /\ UNCHANGED envvars
    \/ \E inserted, ok \in BOOLEAN : AdminBanDb(StrSPAM, inserted, ok) /\ UNCHANGED envvars
    \/ \E u \in HighlightInputs, ok \in BOOLEAN :
          AdminHighlightDb(u, "pw", Undefined, ok) /\ UNCHANGED envvars
    \/ \E load \in loads, ok \in BOOLEAN : LoadResume(load, ok) /\ ObserveLoad(load)

SpecReload == Init /\ [][NextReload]_vars

FaultyClient == "c1"

(* a missing field of a payload destructures to undefined *)
JoinPayloads(c) ==
    IF c = FaultyClient
    THEN {[userId |-> u, username |-> UsernameOf(u), groupId |-> g] :
             u \in {ClientUser(c), Undefined}, g \in {"R1", Undefined}}
    ELSE {[userId |-> ClientUser(c), username |-> UsernameOf(ClientUser(c)),
           groupId |-> "R1"]}

SendPayloads(c) ==
    IF c = FaultyClient
    THEN {[groupId |-> g, userId |-> u, username |-> UsernameOf(ClientUser(c)),
           content |-> t] :
             g \in {"R1", Undefined}, u \in {ClientUser(c), Undefined},
             t \in {StrHello, StrThisIsSpam}}
    ELSE {}

Malformed(p) == p.groupId = Undefined \/ p.userId = Undefined

NextMalformed ==
    \/ \E c \in Sockets : Connect(c) /\ UNCHANGED envvars
    \/ \E c \in Sockets : \E p \in JoinPayloads(c) :
          UserJoin(c, p.userId, p.username, p.groupId) /\ UNCHANGED envvars
    \/ UserJoinNoPayload(FaultyClient) /\ UNCHANGED envvars
    \/ \E md \in SendPayloads(FaultyClient) :
          MessageSend(FaultyClient, md) /\ UNCHANGED envvars
    \/ MessageSendNoPayload(FaultyClient) /\ UNCHANGED envvars
    \/ AdminBan(StrSPAM) /\ UNCHANGED envvars

SpecMalformed == Init /\ [][NextMalformed]_vars

(* C13 (as claimed): a user:join or message:send with no payload or with   *)
(* groupId or userId missing is dropped: the process keeps running, the    *)
(* presence registry and the strike states are unchanged and neither       *)
(* users:update nor message:new is emitted.                                *)
MalformedEventIsDropped ==
    [][\A c \in Sockets :
          ( \/ UserJoinNoPayload(c)
            \/ MessageSendNoPayload(c)
            \/ \E p \in JoinPayloads(c) :
                  Malformed(p) /\ UserJoin(c, p.userId, p.username, p.groupId)
            \/ \E md \in SendPayloads(c) : Malformed(md) /\ MessageSend(c, md) )
          => /\ hub' = "running"
             /\ onlineUsers' = onlineUsers
             /\ userStrikeState' = userStrikeState
             /\ \A i \in 1..Len(outbox') :
                   outbox'[i].event \notin {"users:update", "message:new"}]_vars

(***************************************************************************)
(* Persistence                                                             *)
(***************************************************************************)
(* C14 (as claimed): a message:send that is allowed is fanned out and      *)
(* handed to the message store exactly once (it is the newest stored       *)
(* message after the handler has run); one that is answered with a warning *)
(* or a block is not stored.                                               *)
AllowedMessageIsStored ==
    sent # NoSend =>
       IF \E ev \in OutEvents("message:new") : TRUE
       THEN /\ Len(messages) > 0
            /\ messages[Len(messages)] = sent.data
            /\ Copies(messages, sent.data) = 1
       ELSE Copies(messages, sent.data) = 0

(***************************************************************************)
(* Strikes: each client joins R1 as its own user and sends; admin bans and *)
(* clock steps; the observer keeps the strike states the handler found     *)
(***************************************************************************)
StrikePayloads(c) ==
    {[groupId |-> "R1", userId |-> ClientUser(c), username |-> UsernameOf(ClientUser(c)),
      content |-> t] : t \in {StrHello, StrThisIsSpam}}

ObserveStrike(c, md) ==
    /\ sent' = [socket |-> c, data |-> md, state |-> SenderState(c),
                uss |-> userStrikeState]
    /\ UNCHANGED <<joined, netCount, hist, seen, clientvars>>

NextStrikes ==
    \/ \E c \in Sockets : Connect(c) /\ ObserveOther
    \/ \E c \in Sockets :
          UserJoin(c, ClientUser(c), UsernameOf(ClientUser(c)), "R1") /\ ObserveOther
    \/ \E c \in Sockets : \E md \in StrikePayloads(c) :
          /\ Truthy(sockUserId[c])
          /\ MessageSend(c, md)
          /\ ObserveStrike(c, md)
    \/ \E u \in BanInputs : AdminBan(u) /\ ObserveOther
    \/ \E d \in {Second, MuteMs} : Tick(d) /\ ObserveOther

SpecStrikes == Init /\ [][NextStrikes]_vars

(* the sender of the observed send and its stored state before and after *)
Sender == sockUserId[sent.socket]

StateBefore ==
    IF Sender \in DOMAIN sent.uss THEN sent.uss[Sender]
    ELSE [strikes |-> 0, bannedUntil |-> 0]

StateAfter ==
    IF Sender \in DOMAIN userStrikeState THEN userStrikeState[Sender]
    ELSE [strikes |-> 0, bannedUntil |-> 0]

(* the observed content holds a banned pattern: of the contents sent here  *)
(* only "this is Spam" does, once the admin has banned "SPAM"              *)
Offends ==
    /\ sent.data.content = StrThisIsSpam
    /\ \E i \in 1..Len(bannedPatterns) : bannedPatterns[i] = <<"s", "p", "a", "m">>

NoticeToSender(ev, data) == outbox = <<[to |-> sent.socket, event |-> ev, data |-> data]>>

(* C15: while a user is muted (bannedUntil > now) every message:send of    *)
(* that user is answered with message:blocked carrying the same            *)
(* bannedUntil, whatever the content, and no strike state changes: strikes *)
(* is not incremented, bannedUntil is neither extended nor cleared.        *)
MutedSendChangesNothing ==
    (sent # NoSend /\ StateBefore.bannedUntil > now)
    => /\ NoticeToSender("message:blocked",
                         [reason |-> "banned", bannedUntil |-> StateBefore.bannedUntil])
       /\ userStrikeState = sent.uss

MutedSpamBlockedAgain ==
    /\ sent # NoSend
    /\ StateBefore.bannedUntil > now
    /\ now > T0
    /\ Offends
    /\ StateAfter = [strikes |-> 0, bannedUntil |-> StateBefore.bannedUntil]

(* C16 (as claimed): a message:send made when the user's bannedUntil is at *)
(* or before the current time is evaluated as for a user with strikes = 0: *)
(* matching content yields message:warning with strikes = 1, other content *)
(* is fanned out.                                                          *)
ExpiredMuteStartsFromZero ==
    (sent # NoSend /\ StateBefore.bannedUntil # 0 /\ StateBefore.bannedUntil <= now)
    => IF Offends
       THEN NoticeToSender("message:warning", [reason |-> "prohibited", strikes |-> 1])
       ELSE FannedOut

(* C16 (amended): a message:send made when the user's bannedUntil is at or *)
(* before the current time is evaluated as for a user that was never muted *)
(* and has the same stored strikes: matching content yields a warning with *)
(* strikes + 1, or a new mute when that reaches 3, other content is fanned *)
(* out. A mute is stored with strikes = 0 and the count cannot change      *)
(* while it lasts, so the first matching send after it yields strikes = 1. *)
ExpiredMuteCountsOn ==
    /\ \A u \in DOMAIN userStrikeState :
          userStrikeState[u].bannedUntil > now => userStrikeState[u].strikes = 0
    /\ (sent # NoSend /\ StateBefore.bannedUntil # 0 /\ StateBefore.bannedUntil <= now)
       => IF ~Offends THEN FannedOut /\ userStrikeState = sent.uss
          ELSE IF StateBefore.strikes = 2
          THEN NoticeToSender("message:blocked",
                              [reason |-> "muted", bannedUntil |-> now + 600000])
          ELSE /\ NoticeToSender("message:warning",
                                 [reason |-> "prohibited",
                                  strikes |-> StateBefore.strikes + 1])
               /\ StateAfter = [strikes |-> StateBefore.strikes + 1,
                                bannedUntil |-> StateBefore.bannedUntil]

SecondStrikeAfterExpiredMute ==
    /\ sent # NoSend
    /\ StateBefore.bannedUntil # 0
    /\ StateBefore.bannedUntil <= now
    /\ Offends
    /\ StateAfter.strikes = 2

(* C17: a matching send that brings a user's strikes to 3 stores           *)
(* bannedUntil = now + 10 minutes with strikes = 0 and is answered with    *)
(* message:blocked carrying that time; the stored strikes of every user    *)
(* are 0, 1 or 2 in every state.                                           *)
ThirdStrikeMutesAndResets ==
    /\ \A u \in DOMAIN userStrikeState : userStrikeState[u].strikes \in {0, 1, 2}
    /\ ( /\ sent # NoSend
         /\ ~(StateBefore.bannedUntil > now)
         /\ Offends
         /\ StateBefore.strikes = 2 )
       => /\ StateAfter = [strikes |-> 0, bannedUntil |-> now + 10 * 60 * 1000]
          /\ NoticeToSender("message:blocked",
                            [reason |-> "muted", bannedUntil |-> now + 10 * 60 * 1000])

ThirdStrikeLater ==
    /\ sent # NoSend
    /\ Offends
    /\ StateBefore = [strikes |-> 2, bannedUntil |-> 0]
    /\ now = T0 + 2 * Second
    /\ StateAfter.bannedUntil = T0 + 2 * Second + MuteMs

(* C18: a message:send whose content holds no banned pattern changes no    *)
(* strike state: the sender's strikes and bannedUntil are what they were,  *)
(* so that strikes collected before a clean message still count.           *)
CleanSendKeepsStrikes ==
    (sent # NoSend /\ ~Offends) => userStrikeState = sent.uss

CleanSendBetweenStrikes ==
    /\ sent # NoSend
    /\ sent.data.content = StrHello
    /\ bannedPatterns # <<>>
    /\ StateBefore.strikes = 2
    /\ StateAfter.strikes = 2
    /\ \E ev \in OutEvents("message:new") : ev.to = sent.socket

(***************************************************************************)
(* Leaves: the presence handlers under every input, with an observer of    *)
(* the group:leave handled by the last step                                *)
(***************************************************************************)
ObserveLeaveEvent(c, g) ==
    /\ seen' = [kind |-> "group:leave", socket |-> c, groupId |-> g,
                userId |-> sockUserId[c], ou |-> onlineUsers,
                subscribed |-> g \in sockRooms[c]]
    /\ UNCHANGED <<joined, netCount, hist, sent, clientvars>>

ObserveNoLeave ==
    /\ seen' = NoneSeen
    /\ UNCHANGED <<joined, netCount, hist, sent, clientvars>>

NextLeave ==
    \/ \E c \in Sockets : Connect(c) /\ ObserveNoLeave
    \/ \E c \in Sockets, u \in UserIds, g \in Rooms :
          UserJoin(c, u, UsernameOf(u), g) /\ ObserveNoLeave
    \/ \E c \in Sockets, g \in Rooms : GroupJoin(c, g) /\ ObserveNoLeave
    \/ \E c \in Sockets, g \in Rooms : GroupLeave(c, g) /\ ObserveLeaveEvent(c, g)
    \/ \E c \in Sockets : Disconnect(c) /\ ObserveNoLeave

SpecLeave == Init /\ [][NextLeave]_vars

LeaveSeen == seen # NoneSeen /\ seen.kind = "group:leave"

(* C19: a group:leave for a room in which the connection's userId has no   *)
(* presence entry (a duplicate leave, a room never joined, a connection    *)
(* without userId) changes the presence registry of no room and raises no  *)
(* error.                                                                  *)
LeaveOfAbsentPairIsNoOp ==
    (LeaveSeen /\ seen.userId \notin PresentUsers(seen.ou, seen.groupId))
    => /\ onlineUsers = seen.ou
       /\ hub = "running"

DuplicateLeaveBesideMember ==
    /\ LeaveSeen
    /\ seen.userId = "u1"
    /\ ~seen.subscribed
    /\ PresentUsers(seen.ou, seen.groupId) = {"u2"}
    /\ PresentUsers(onlineUsers, seen.groupId) = {"u2"}

(* C20: a group:leave of room R by connection c emits nothing to c: the    *)
(* snapshot of R as it is after the leave goes, once each, to the          *)
(* connections that are still subscribed to R (when c has a userId and R   *)
(* has a registry), and no other event is emitted.                         *)
LeaverGetsNoSnapshot ==
    LeaveSeen
    => /\ \A i \in 1..Len(outbox) : outbox[i].to # seen.socket
       /\ (Truthy(seen.userId) /\ MapHas(seen.ou, seen.groupId))
             => \A r \in Sockets \ {seen.socket} :
                   (conn[r] = "connected" /\ seen.groupId \in sockRooms[r])
                      => Copies(outbox,
                                [to |-> r, event |-> "users:update",
                                 data |-> [groupId |-> seen.groupId,
                                           users |-> Snapshot(GroupUsers(onlineUsers,
                                                                         seen.groupId))]]) = 1
       /\ \A i \in 1..Len(outbox) :
             /\ outbox[i].event = "users:update"
             /\ outbox[i].data.groupId = seen.groupId
             /\ seen.groupId \in sockRooms[outbox[i].to]

RemainingMemberSeesLeave ==
    /\ LeaveSeen
    /\ seen.socket = "c1"
    /\ seen.subscribed
    /\ PresentUsers(seen.ou, seen.groupId) = {"u1", "u2"}
    /\ outbox = <<[to |-> "c2", event |-> "users:update",
                   data |-> [groupId |-> seen.groupId,
                             users |-> <<[id |-> "c2", username |-> "bob"]>>]]>>

(***************************************************************************)
(* Disconnects: the presence handlers under every input, with an observer  *)
(* of the disconnect handled by the last step                              *)
(***************************************************************************)
ObserveDisconnectEvent(c) ==
    /\ seen' = [kind |-> "disconnect", socket |-> c, ou |-> onlineUsers]
    /\ UNCHANGED <<joined, netCount, hist, sent, clientvars>>

NextDisconnect ==
    \/ \E c \in Sockets : Connect(c) /\ ObserveNoLeave
    \/ \E c \in Sockets, u \in UserIds, g \in Rooms :
          UserJoin(c, u, UsernameOf(u), g) /\ ObserveNoLeave
    \/ \E c \in Sockets, g \in Rooms : GroupJoin(c, g) /\ ObserveNoLeave
    \/ \E c \in Sockets, g \in Rooms : GroupLeave(c, g) /\ ObserveNoLeave
    \/ \E c \in Sockets : Disconnect(c) /\ ObserveDisconnectEvent(c)

SpecDisconnect == Init /\ [][NextDisconnect]_vars

DisconnectSeen == seen # NoneSeen /\ seen.kind = "disconnect"

(* the users list of room g as its registry stands *)
RegistrySnapshot(g) ==
    LET gu == GroupUsers(onlineUsers, g)
    IN  [k \in 1..Len(gu) |-> [id |-> gu[k].value.socketId, username |-> gu[k].value.username]]

(* the registry of room g is not what the observed event found *)
LostAMember(g) == GroupUsers(onlineUsers, g) # GroupUsers(seen.ou, g)

(* C21: a disconnect sends, for every room whose registry lost an entry,   *)
(* the room's snapshot after the removal to every connection still         *)
(* subscribed to it, once; it sends nothing for any other room and nothing *)
(* to the disconnecting connection.                                        *)
DisconnectNotifiesRoomsThatLostAMember ==
    DisconnectSeen
    => /\ \A g \in Rooms :
             LostAMember(g)
             => \A r \in Sockets :
                   (conn[r] = "connected" /\ g \in sockRooms[r])
                   => Copies(outbox, [to |-> r, event |-> "users:update",
                                      data |-> [groupId |-> g,
                                                users |-> RegistrySnapshot(g)]]) = 1
       /\ \A i \in 1..Len(outbox) :
             /\ outbox[i].event = "users:update"
             /\ LostAMember(outbox[i].data.groupId)
             /\ outbox[i].to # seen.socket
             /\ conn[outbox[i].to] = "connected"
             /\ outbox[i].data.groupId \in sockRooms[outbox[i].to]

LeftTwoRoomsAtOnce ==
    /\ DisconnectSeen
    /\ seen.socket = "c2"
    /\ \A g \in Rooms : LostAMember(g)
    /\ sockRooms["c1"] = {"R1"}
    /\ outbox = <<[to |-> "c1", event |-> "users:update",
                   data |-> [groupId |-> "R1",
                             users |-> <<[id |-> "c1", username |-> "alice"]>>]]>>

(* C22: the userId and the username bound to a connection by its first     *)
(* user:join are never changed by a later event on that connection.        *)
IdentityFixedAtFirstJoin ==
    [][\A c \in Sockets :
          Truthy(sockUserId[c])
          => /\ sockUserId'[c] = sockUserId[c]
             /\ sockUsername'[c] = sockUsername[c]]_vars

(***************************************************************************)
(* Order of the presence events: the presence handlers under every input,  *)
(* with an observer of the last snapshot each connection received for each *)
(* room it is subscribed to                                                *)
(***************************************************************************)
NoSnapshot == [got |-> FALSE, users |-> <<>>]

LastReceived(c, g) == IF seen.kind = "snapshots" THEN seen.last[c][g] ELSE NoSnapshot

UpdatesFor(out, c, g) ==
    {i \in 1..Len(out) : /\ out[i].to = c
                          /\ out[i].event = "users:update"
                          /\ out[i].data.groupId = g}

ObserveSnapshots ==
    /\ seen' = [kind |-> "snapshots",
                last |-> [c \in Sockets |-> [g \in Rooms |->
                    IF conn'[c] # "connected" \/ g \notin sockRooms'[c] THEN NoSnapshot
                    ELSE IF UpdatesFor(outbox', c, g) # {}
                         THEN LET i == CHOOSE j \in UpdatesFor(outbox', c, g) :
                                           \A k \in UpdatesFor(outbox', c, g) : k <= j
                              IN  [got |-> TRUE, users |-> outbox'[i].data.users]
                         ELSE LastReceived(c, g)]]]
    /\ UNCHANGED <<joined, netCount, hist, sent, clientvars>>

NextOrder ==
    \/ \E c \in Sockets : Connect(c) /\ ObserveSnapshots
    \/ \E c \in Sockets, u \in UserIds, g \in Rooms :
          UserJoin(c, u, UsernameOf(u), g) /\ ObserveSnapshots
    \/ \E c \in Sockets, g \in Rooms : GroupJoin(c, g) /\ ObserveSnapshots
    \/ \E c \in Sockets, g \in Rooms : GroupLeave(c, g) /\ ObserveSnapshots
    \/ \E c \in Sockets : Disconnect(c) /\ ObserveSnapshots

SpecOrder == Init /\ [][NextOrder]_vars

(* C23: every users:update of a step carries the registry of its room as   *)
(* the step left it, a step sends a connection at most one snapshot per    *)
(* room, and the last snapshot a subscribed connection received for a room *)
(* is the room's registry: no change of a registry goes unreported or is   *)
(* reported out of order.                                                  *)
SnapshotsFollowOneOrder ==
    /\ \A i \in 1..Len(outbox) :
          outbox[i].event = "users:update"
          => outbox[i].data.users = RegistrySnapshot(outbox[i].data.groupId)
    /\ \A c \in Sockets, g \in Rooms :
          /\ Cardinality(UpdatesFor(outbox, c, g)) <= 1
          /\ LastReceived(c, g).got => LastReceived(c, g).users = RegistrySnapshot(g)

SawJoinThenDisconnect ==
    /\ conn["c2"] = "disconnected"
    /\ sockUserId["c2"] = "u2"
    /\ outbox = <<[to |-> "c1", event |-> "users:update",
                   data |-> [groupId |-> "R1",
                             users |-> <<[id |-> "c1", username |-> "alice"]>>]]>>
    /\ LastReceived("c1", "R1") = [got |-> TRUE, users |-> <<[id |-> "c1", username |-> "alice"]>>]
    /\ LastReceived("c1", "R2") = [got |-> TRUE, users |-> <<[id |-> "c1", username |-> "alice"]>>]

(***************************************************************************)
(* Joins: the presence handlers under every input, with an observer of the *)
(* user:join handled by the last step                                      *)
(***************************************************************************)
ObserveJoinEvent(c, username, groupId) ==
    /\ seen' = [kind |-> "join", socket |-> c, username |-> username, groupId |-> groupId,
                before |-> Subscribers(sockRooms, conn, groupId)]
    /\ UNCHANGED <<joined, netCount, hist, sent, clientvars>>

NextJoin ==
    \/ \E c \in Sockets : Connect(c) /\ ObserveNoLeave
    \/ \E c \in Sockets, u \in UserIds, g \in Rooms :
          UserJoin(c, u, UsernameOf(u), g) /\ ObserveJoinEvent(c, UsernameOf(u), g)
    \/ \E c \in Sockets, g \in Rooms : GroupJoin(c, g) /\ ObserveNoLeave
    \/ \E c \in Sockets, g \in Rooms : GroupLeave(c, g) /\ ObserveNoLeave
    \/ \E c \in Sockets : Disconnect(c) /\ ObserveNoLeave

SpecJoin == Init /\ [][NextJoin]_vars

JoinSeen == seen # NoneSeen /\ seen.kind = "join"

(* C24: a user:join for room R sends user:joined, with the room and the    *)
(* joiner's username, once to every other connection subscribed to R and   *)
(* to nobody else, never to the joiner; the joiner gets the users:update   *)
(* snapshot of R, once.                                                    *)
PeersAreToldOfTheJoiner ==
    JoinSeen
    => /\ \A r \in Sockets :
             Copies(outbox, [to |-> r, event |-> "user:joined",
                             data |-> [groupId |-> seen.groupId,
                                       username |-> seen.username]])
             = IF r \in seen.before \ {seen.socket} THEN 1 ELSE 0
       /\ \A i \in 1..Len(outbox) :
             outbox[i].event = "user:joined"
             => /\ outbox[i].to # seen.socket
                /\ outbox[i].data = [groupId |-> seen.groupId, username |-> seen.username]
       /\ Copies(outbox, [to |-> seen.socket, event |-> "users:update",
                          data |-> [groupId |-> seen.groupId,
                                    users |-> RegistrySnapshot(seen.groupId)]]) = 1

BobJoinsAliceInRoom ==
    /\ JoinSeen
    /\ seen.socket = "c2"
    /\ seen.username = "bob"
    /\ seen.groupId = "R1"
    /\ seen.before = {"c1"}
    /\ Copies(outbox, [to |-> "c1", event |-> "user:joined",
                       data |-> [groupId |-> "R1", username |-> "bob"]]) = 1
    /\ Len(outbox) = 3

(* C25: a message:new for room R is fanned out only when the sending       *)
(* connection is subscribed to R and its user has an entry in R's          *)
(* registry.                                                               *)
MessageOnlyFromMembers ==
    (sent # NoSend /\ \E i \in 1..Len(outbox) : outbox[i].event = "message:new")
    => /\ sent.data.groupId \in sockRooms[sent.socket]
       /\ sent.data.groupId \in RoomsOfSocket(onlineUsers, sent.socket)

(***************************************************************************)
(* Sender identity: clients that put any user into the payload of          *)
(* message:send                                                            *)
(***************************************************************************)
(* a payload written by hand: socket.emit('message:send', {...}) *)
ForgedPayloads ==
    {[groupId |-> "R1", userId |-> u, username |-> UsernameOf(u), content |-> t] :
        u \in UserIds, t \in {StrHello, StrThisIsSpam}}

NextForged ==
    \/ \E c \in Sockets : Connect(c) /\ ObserveOther
    \/ \E c \in Sockets :
          UserJoin(c, ClientUser(c), UsernameOf(ClientUser(c)), "R1") /\ ObserveOther
    \/ \E c \in Sockets : Disconnect(c) /\ ObserveOther
    \/ \E c \in Sockets : \E md \in ForgedPayloads :
          /\ Truthy(sockUserId[c])
          /\ MessageSend(c, md)
          /\ ObserveMessage(c, md)
    \/ AdminBan(StrSPAM) /\ ObserveOther
    \/ \E d \in {MuteMs} : Tick(d) /\ ObserveOther

SpecForged == Init /\ [][NextForged]_vars

(* C26: the userId and the username of every message:new are those bound   *)
(* to the connection that sent it, the user whose strike state the send    *)
(* was checked against.                                                    *)
MessageNamesItsSender ==
    \A i \in 1..Len(outbox) :
        (sent # NoSend /\ outbox[i].event = "message:new")
        => /\ outbox[i].data.userId = sockUserId[sent.socket]
           /\ outbox[i].data.username = sockUsername[sent.socket]
           /\ sent.state = StrikeStateOf(userStrikeState, outbox[i].data.userId)

(***************************************************************************)
(* Reloads racing: a database whose every call succeeds, the refresh timer *)
(* and the admin endpoints that change the banned_usernames collection     *)
(***************************************************************************)
NextRace ==
    \/ MongoReady(TRUE) /\ UNCHANGED envvars
    \/ RefreshTimer(TRUE) /\ UNCHANGED envvars
    \/ \E u \in {StrSPAM, StrHello} : AdminBanDb(u, TRUE, TRUE) /\ UNCHANGED envvars
    \/ \E row \in 0..MaxRows : AdminUnbanDb(row, TRUE, TRUE) /\ UNCHANGED envvars
    \/ \E load \in loads : LoadResume(load, TRUE) /\ UNCHANGED envvars

SpecRace == Init /\ [][NextRace]_vars

(* C27: with a database attached and no reload in flight, bannedPatterns   *)
(* is the lower-cased usernames of the banned_usernames collection as it   *)
(* stands.                                                                 *)
ReloadsConverge ==
    (db = "ready" /\ loads = {}) => bannedPatterns = LoadedPatterns(bannedColl)

(***************************************************************************)
(* GET /api/groups: overlapping requests, with and without a database      *)
(***************************************************************************)
NextGroups ==
    \/ MongoReady(TRUE) /\ UNCHANGED envvars
    \/ \E load \in loads : LoadResume(load, TRUE) /\ UNCHANGED envvars
    \/ \E r \in Requests : GetGroupsFind(r) /\ UNCHANGED envvars
    \/ \E r \in Requests : GetGroupsEnsure(r) /\ UNCHANGED envvars
    \/ \E r \in Requests : GetGroupsMemory(r) /\ UNCHANGED envvars

SpecGroups == Init /\ [][NextGroups]_vars

(* the number of global groups the ensure step created in a list of groups *)
RECURSIVE EnsuredGlobals(_)
EnsuredGlobals(rows) ==
    IF rows = <<>> THEN 0
    ELSE (IF Head(rows) = GlobalDoc THEN 1 ELSE 0) + EnsuredGlobals(Tail(rows))

Answered(mode) == \E r \in Requests : groupReqs[r] = [pc |-> "done", mode |-> mode]

(* C28: whatever GET /api/groups requests overlap, the store holds at most *)
(* one global group created by the ensure step, and exactly one once a     *)
(* request has been answered from that store.                              *)
OneEnsuredGlobalGroup ==
    /\ EnsuredGlobals(groupsColl) <= 1
    /\ EnsuredGlobals(MapValues(groups)) <= 1
    /\ Answered("db") => EnsuredGlobals(groupsColl) = 1
    /\ Answered("memory") => EnsuredGlobals(MapValues(groups)) = 1

(***************************************************************************)
(* connectMongo: calls, the ends of their awaits, and closeMongo           *)
(***************************************************************************)
NextMongo ==
    \/ \E uri \in {"unset", "invalid", "valid"} : ModuleLoad(uri) /\ UNCHANGED envvars
    \/ ConnectMongo /\ UNCHANGED envvars
    \/ \E p \in 1..MaxCalls, outcome \in {"connected", "rejected", "timeout"} :
          RaceSettles(p, outcome) /\ UNCHANGED envvars
    \/ \E p \in 1..MaxCalls, ok \in BOOLEAN : PingSettles(p, ok) /\ UNCHANGED envvars
    \/ \E k \in 1..MaxCalls, ok \in BOOLEAN : ClientSettles(k, ok) /\ UNCHANGED envvars
    \/ CloseMongo /\ UNCHANGED envvars
    \/ CloseResume /\ UNCHANGED envvars

SpecMongo == Init /\ [][NextMongo]_vars

Connecting == {k \in 1..Len(attempts) : attempts[k].link = "connecting"}

FailedAttempt(p) == attempts[p].pc = "resolved" /\ attempts[p].value = 0

(* C29: at most one MongoClient is connecting at any time; a call made     *)
(* while the attempt of the call before it is still in flight got that     *)
(* same attempt; and the shared promise is never left on a failed attempt, *)
(* so a later call starts a new one.                                       *)
ConnectMongoSharesOneAttempt ==
    /\ Cardinality(Connecting) <= 1
    /\ \A i \in 1..(Len(calls) - 1) :
          (calls[i] # 0 /\ attempts[calls[i]].pc # "resolved") => calls[i + 1] = calls[i]
    /\ connectionPromise # 0 => ~FailedAttempt(connectionPromise)

(***************************************************************************)
(* The mobile client selecting groups, beside a second client              *)
(***************************************************************************)
NextMobile ==
    \/ \E c \in Sockets : Connect(c) /\ UNCHANGED envvars
    \/ \E g \in Rooms : MobileSelectGroup(g) /\ UNCHANGED obsvars
    \/ \E i \in 1..MaxPending : MobileJoinEmitted(i) /\ UNCHANGED obsvars
    \/ \E i \in 1..MaxPending : MobileUserJoinHandled(i) /\ UNCHANGED obsvars
    \/ \E g \in Rooms : UserJoin("c2", "u2", UsernameOf("u2"), g) /\ UNCHANGED envvars
    \/ Disconnect("c2") /\ UNCHANGED envvars

SpecMobile == Init /\ [][NextMobile]_vars

(* C30: when no join of the mobile client is pending, its connection is    *)
(* subscribed to the active group only and has a presence entry in the     *)
(* active group only.                                                      *)
MobileOnlyInActiveGroup ==
    (conn[MobileSocket] = "connected" /\ activeGroup # Undefined /\ pendingJoins = <<>>)
    => /\ sockRooms[MobileSocket] = {activeGroup}
       /\ RoomsOfSocket(onlineUsers, MobileSocket) = {activeGroup}

====
